---- MODULE Spec2Model ----
(***************************************************************************)
(* Model of app.py: the /api/next endpoint of WhatTimeIsTheF1.             *)
(*                                                                         *)
(*   - race_cache / get_race_data / fetch_race_data: the process-wide      *)
(*     cache and its refresh-on-demand policy, run by concurrent asyncio   *)
(*     request handlers that interleave only at the await of the fetch;    *)
(*   - get_next_race: the scan for the first race whose "gp" session lies  *)
(*     in the future, with its string normalisation, its two parse         *)
(*     attempts and its exception handlers.                                *)
(*                                                                         *)
(* Time is counted in hours.  A timestamp string is a sequence of tokens:  *)
(* a date chunk "YYYY-MM-DD" (day number v), a clock chunk "HH:MM" (hour   *)
(* v; the same characters serve as a time of day and as the digits of an   *)
(* offset), and the single characters T, Z, +, - and x (any other          *)
(* character).                                                             *)
(***************************************************************************)
EXTENDS Integers, Sequences, FiniteSets, TLC

VARIABLES
    clock,       \* datetime.now(timezone.utc), in hours
    upstream,    \* the feed document the upstream server currently serves
    race_cache,  \* app.py:13  {"data": ..., "timestamp": ...}
    pc,          \* per request: where its get_next_race coroutine stands
    rnow,        \* per request: `now` of get_race_data (app.py:106)
    resp,        \* per request: the upstream's answer in flight, then how the fetch ended
    result,      \* per request: what the client receives
    rs           \* the resolver harness: one payload, one now, the scan's result

vars == <<clock, upstream, race_cache, pc, rnow, resp, result, rs>>

-----------------------------------------------------------------------------
(* Bounds *)

NumReqs == 2
MaxTime == 3
MaxVer == 2
MaxRaces == 3
MaxNow == 3

(* app.py:14  CACHE_DURATION = timedelta(hours=1) *)
CACHE_DURATION == 1

Reqs == 1..NumReqs

-----------------------------------------------------------------------------
(* Timestamp strings *)

Ch(c) == [k |-> c, v |-> 0]
Date(d) == [k |-> "date", v |-> d]
HM(h) == [k |-> "hm", v |-> h]

\* the literal "+00:00"
PlusZero == <<Ch("+"), HM(0)>>

\* s.endswith("Z")
EndsWithZ(s) == Len(s) > 0 /\ s[Len(s)] = Ch("Z")

\* c in s, for a single character c
Contains(s, c) == \E i \in 1..Len(s) : s[i] = Ch(c)

\* s.replace("Z", "+00:00")
RECURSIVE ReplaceZ(_)
ReplaceZ(s) ==
    IF s = <<>> THEN <<>>
    ELSE (IF Head(s) = Ch("Z") THEN PlusZero ELSE <<Head(s)>>) \o ReplaceZ(Tail(s))

\* a datetime: naive (aware = FALSE) or carrying a UTC offset
DT(aware, local, off) == [aware |-> aware, local |-> local, off |-> off]
NoDT == DT(FALSE, 0, 0)
Instant(dt) == dt.local - dt.off

Parsed(dt) == [ok |-> TRUE, dt |-> dt]
ValueError == [ok |-> FALSE, dt |-> NoDT]

IsSign(t) == t = Ch("+") \/ t = Ch("-")
IsSep(t) == t.k \in {"T", "Z", "+", "-", "x"}
SignedOff(sign, hm) == IF sign = Ch("+") THEN hm.v ELSE 0 - hm.v

\* datetime.fromisoformat: YYYY-MM-DD[*HH:MM[(+|-)HH:MM | Z]], * any one character
FromIsoformat(s) ==
    IF Len(s) = 0 \/ s[1].k # "date" THEN ValueError
    ELSE IF Len(s) = 1 THEN Parsed(DT(FALSE, s[1].v * 24, 0))
    ELSE IF Len(s) < 3 \/ ~IsSep(s[2]) \/ s[3].k # "hm" THEN ValueError
    ELSE IF Len(s) = 3 THEN Parsed(DT(FALSE, s[1].v * 24 + s[3].v, 0))
    ELSE IF Len(s) = 4 /\ s[4] = Ch("Z") THEN Parsed(DT(TRUE, s[1].v * 24 + s[3].v, 0))
    ELSE IF Len(s) = 5 /\ IsSign(s[4]) /\ s[5].k = "hm"
         THEN Parsed(DT(TRUE, s[1].v * 24 + s[3].v, SignedOff(s[4], s[5])))
    ELSE ValueError

\* datetime.isoformat() of an aware datetime: YYYY-MM-DDTHH:MM(+|-)HH:MM
Isoformat(dt) ==
    <<Date(dt.local \div 24), Ch("T"), HM(dt.local % 24),
      IF dt.off < 0 THEN Ch("-") ELSE Ch("+"),
      HM(IF dt.off < 0 THEN 0 - dt.off ELSE dt.off)>>

-----------------------------------------------------------------------------
(* The feed *)

\* a race: sessions.get("gp") is None (hasGp = FALSE) or the string gp; fp1
\* is the time of another session of the race ("fp1"), <<>> when it has none
Race(hasGp, gp) == [hasGp |-> hasGp, gp |-> gp, fp1 |-> <<>>]
NoGp == Race(FALSE, <<>>)
NoGpWith(fp1) == [hasGp |-> FALSE, gp |-> <<>>, fp1 |-> fp1]

\* a feed document: version ver of the upstream file, with or without "races"
Payload(ver, hasRaces, races) == [ver |-> ver, hasRaces |-> hasRaces, races |-> races]

\* data.get("races", [])
GetRaces(data) == IF data.hasRaces THEN data.races ELSE <<>>

-----------------------------------------------------------------------------
(* get_next_race: the scan *)

\* NormalizePrimary without the test for "+" of app.py:143
NormalizePrimary_NoPlusTest(s) ==
    IF EndsWithZ(s) THEN SubSeq(s, 1, Len(s) - 1) \o PlusZero
    ELSE IF ~Contains(s, "Z") THEN s \o PlusZero
    ELSE s

\* app.py:141-144
NormalizePrimary(s) ==
    IF EndsWithZ(s) THEN SubSeq(s, 1, Len(s) - 1) \o PlusZero
    ELSE IF ~Contains(s, "+") /\ ~Contains(s, "Z") THEN s \o PlusZero
    ELSE s

\* app.py:178-181
NormalizeFallback(s) ==
    IF EndsWithZ(s) THEN SubSeq(s, 1, Len(s) - 1) \o PlusZero
    ELSE IF ~Contains(s, "+") THEN s \o PlusZero
    ELSE s

\* app.py:146-150: the second fromisoformat is outside any try
ParseStart(s) ==
    LET first == FromIsoformat(s)
    IN  IF first.ok THEN first ELSE FromIsoformat(ReplaceZ(s))

\* what a scan ends with: a response, or an exception leaving the loop
Found(i, dt) == [status |-> "ok", idx |-> i, startUtc |-> Isoformat(dt), exc |-> "none"]
SeasonOver == [status |-> "season_over", idx |-> 0, startUtc |-> <<>>, exc |-> "none"]
Raise(e) == [status |-> "raise", idx |-> 0, startUtc |-> <<>>, exc |-> e]
ServerError(e) == [status |-> "error500", idx |-> 0, startUtc |-> <<>>, exc |-> e]
NoResponse == [status |-> "pending", idx |-> 0, startUtc |-> <<>>, exc |-> "none"]

\* `not start_time_str`: None or the empty string
Falsy(race) == ~race.hasGp \/ race.gp = <<>>

\* Scan, comparing with >= where app.py:152 compares with >
RECURSIVE Scan_GE(_, _, _, _)
Scan_GE(races, i, now, primary) ==
    IF i > Len(races) THEN SeasonOver
    ELSE IF Falsy(races[i]) THEN Scan_GE(races, i + 1, now, primary)
    ELSE LET s == IF primary THEN NormalizePrimary(races[i].gp)
                  ELSE NormalizeFallback(races[i].gp)
             p == ParseStart(s)
         IN  IF ~p.ok THEN Raise("ValueError")
             ELSE IF ~p.dt.aware THEN Raise("TypeError")
             ELSE IF Instant(p.dt) >= now THEN Found(i, p.dt)
             ELSE Scan_GE(races, i + 1, now, primary)

\* Scan, returning the future race that starts first rather than the one
\* that comes first in the feed
Scan_Sorted(races, i, now, primary) ==
    LET norm(j) == IF primary THEN NormalizePrimary(races[j].gp)
                   ELSE NormalizeFallback(races[j].gp)
        future == {j \in i..Len(races) :
                     /\ ~Falsy(races[j])
                     /\ ParseStart(norm(j)).ok /\ ParseStart(norm(j)).dt.aware
                     /\ Instant(ParseStart(norm(j)).dt) > now}
    IN  IF future = {} THEN SeasonOver
        ELSE LET best == CHOOSE j \in future : \A k \in future :
                            \/ Instant(ParseStart(norm(j)).dt) < Instant(ParseStart(norm(k)).dt)
                            \/ /\ Instant(ParseStart(norm(j)).dt) = Instant(ParseStart(norm(k)).dt)
                               /\ j <= k
             IN  Found(best, ParseStart(norm(best)).dt)

\* Scan, reading another session of a race that has no "gp"
RECURSIVE Scan_AnySession(_, _, _, _)
Scan_AnySession(races, i, now, primary) ==
    IF i > Len(races) THEN SeasonOver
    ELSE LET str == IF races[i].hasGp THEN races[i].gp ELSE races[i].fp1
         IN  IF str = <<>> THEN Scan_AnySession(races, i + 1, now, primary)
             ELSE LET s == IF primary THEN NormalizePrimary(str)
                           ELSE NormalizeFallback(str)
                      p == ParseStart(s)
                  IN  IF ~p.ok THEN Raise("ValueError")
                      ELSE IF ~p.dt.aware THEN Raise("TypeError")
                      ELSE IF Instant(p.dt) > now THEN Found(i, p.dt)
                      ELSE Scan_AnySession(races, i + 1, now, primary)

\* start_time > now: TypeError between a naive and an aware datetime
RECURSIVE Scan(_, _, _, _)
Scan(races, i, now, primary) ==
    IF i > Len(races) THEN SeasonOver
    ELSE IF Falsy(races[i]) THEN Scan(races, i + 1, now, primary)
    ELSE LET s == IF primary THEN NormalizePrimary(races[i].gp)
                  ELSE NormalizeFallback(races[i].gp)
             p == ParseStart(s)
         IN  IF ~p.ok THEN Raise("ValueError")
             ELSE IF ~p.dt.aware THEN Raise("TypeError")
             ELSE IF Instant(p.dt) > now THEN Found(i, p.dt)
             ELSE Scan(races, i + 1, now, primary)

\* app.py:129-163 under `except Exception` (app.py:200-203)
PrimaryResponse(data, now) ==
    LET o == Scan(GetRaces(data), 1, now, TRUE)
    IN  IF o.status = "raise" THEN SeasonOver ELSE o

\* FallbackResponse without the `is not None` test of app.py:167
FallbackResponse_NoNoneCheck(cache, now) ==
    IF cache.data.some
    THEN LET o == Scan(GetRaces(cache.data.val), 1, now, FALSE)
         IN  IF o.status = "raise" THEN ServerError(o.exc) ELSE o
    ELSE ServerError("AttributeError")

\* app.py:165-199: an exception raised inside this handler is not caught by
\* the `except Exception` clause of the same try statement
FallbackResponse(cache, now) ==
    IF cache.data.some
    THEN LET o == Scan(GetRaces(cache.data.val), 1, now, FALSE)
         IN  IF o.status = "raise" THEN ServerError(o.exc) ELSE o
    ELSE SeasonOver

-----------------------------------------------------------------------------
(* Inputs *)

\* "gp" strings, by shape; day 0 hour 2 is instant 2, day 1 is instant 24
GpStrings ==
    { <<Date(0), Ch("T"), HM(0), Ch("Z")>>,               \* trailing Z, instant 0
      <<Date(0), Ch("T"), HM(2), Ch("Z")>>,               \* trailing Z, instant 2
      <<Date(1), Ch("T"), HM(0), Ch("Z")>>,               \* trailing Z, instant 24
      <<Date(0), Ch("T"), HM(2)>>,                        \* no offset, no Z
      <<Date(0), Ch("T"), HM(3), Ch("+"), HM(1)>>,        \* +01:00, instant 2
      <<Date(0), Ch("T"), HM(1), Ch("-"), HM(1)>>,        \* -01:00, instant 2
      <<Date(1), Ch("T"), HM(0), Ch("-"), HM(1)>>,        \* -01:00, instant 25
      <<Date(1)>>,                                        \* a date alone
      <<Date(1), Ch("Z"), HM(0)>>,                        \* Z where T belongs
      <<Ch("x")>>,                                        \* not a timestamp
      <<Ch("x"), Ch("Z")>>,                               \* not a timestamp, trailing Z
      <<>> }                                              \* the empty string

\* a race without "gp" has no other session, or one in the future
RaceValues ==
    {NoGp, NoGpWith(<<Date(1), Ch("T"), HM(0), Ch("Z")>>)}
      \cup {Race(TRUE, s) : s \in GpStrings}

RaceLists == UNION {[1..n -> RaceValues] : n \in 0..MaxRaces}

\* every feed document of at most MaxRaces races, and one without "races"
Payloads == {Payload(1, TRUE, l) : l \in RaceLists} \cup {Payload(1, FALSE, <<>>)}

\* the documents the upstream serves in the cache model, one per version:
\* a past race then a future one; an unparsable "gp" then a future race;
\* a document without "races"
FeedBodies ==
    << <<TRUE, <<Race(TRUE, <<Date(0), Ch("T"), HM(2), Ch("Z")>>),
                 Race(TRUE, <<Date(1), Ch("T"), HM(0), Ch("Z")>>)>>>>,
       <<TRUE, <<Race(TRUE, <<Ch("x")>>),
                 Race(TRUE, <<Date(1), Ch("T"), HM(0), Ch("Z")>>)>>>>,
       <<FALSE, <<>>>> >>

Feed(ver) ==
    LET b == FeedBodies[((ver - 1) % Len(FeedBodies)) + 1]
    IN  Payload(ver, b[1], b[2])

-----------------------------------------------------------------------------
(* The cache: app.py:13 and get_race_data, app.py:104-115 *)

Some(x) == [some |-> TRUE, val |-> x]
NoData == [some |-> FALSE, val |-> Payload(0, FALSE, <<>>)]
NoTimestamp == [some |-> FALSE, val |-> 0]

\* NeedsFetch, comparing with >= where app.py:111 compares with >
NeedsFetch_GE(cache, now) ==
    \/ ~cache.data.some \/ ~cache.timestamp.some
    \/ (now - cache.timestamp.val) >= CACHE_DURATION

\* app.py:108 and 111: the two conditions under which fetch_race_data is awaited
NeedsFetch(cache, now) ==
    \/ ~cache.data.some \/ ~cache.timestamp.some
    \/ (now - cache.timestamp.val) > CACHE_DURATION

\* Store, assigning "data" and leaving "timestamp" as it was
Store_DataOnly(body, now) == [data |-> Some(body), timestamp |-> NoTimestamp]

\* app.py:109-110 and 112-113: both keys are assigned when the await returns,
\* the timestamp with the `now` taken before the fetch began
Store(body, now) == [data |-> Some(body), timestamp |-> Some(now)]

\* the outcomes of fetch_race_data (app.py:96-101): the body, or
\* httpx.TimeoutException / httpx.HTTPStatusError (both httpx.HTTPError), or
\* the json.JSONDecodeError of response.json() (a ValueError)
HTTPErrors == {"timeout", "non2xx"}
NoResp == [kind |-> "none", body |-> Payload(0, FALSE, <<>>)]

RsOff == [phase |-> "off", payload |-> Payload(0, FALSE, <<>>), now |-> 0, out |-> NoResponse]

-----------------------------------------------------------------------------
(* The requests *)

Init ==
    /\ clock = 0
    /\ upstream = Feed(1)
    /\ race_cache = [data |-> NoData, timestamp |-> NoTimestamp]
    /\ pc = [r \in Reqs |-> "idle"]
    /\ rnow = [r \in Reqs |-> 0]
    /\ resp = [r \in Reqs |-> NoResp]
    /\ result = [r \in Reqs |-> NoResponse]
    /\ rs = RsOff

\* the wall clock advances
Tick ==
    /\ clock < MaxTime
    /\ clock' = clock + 1
    /\ UNCHANGED <<upstream, race_cache, pc, rnow, resp, result, rs>>

\* the upstream repository publishes a new version of the feed
UpstreamPublish ==
    /\ upstream.ver < MaxVer
    /\ upstream' = Feed(upstream.ver + 1)
    /\ UNCHANGED <<clock, race_cache, pc, rnow, resp, result, rs>>

\* GET /api/next with a fresh cache: no await suspends the coroutine, so
\* app.py:128-163 runs in one step
RequestFresh(r) ==
    /\ pc[r] = "idle"
    /\ ~NeedsFetch(race_cache, clock)
    /\ result' = [result EXCEPT ![r] = PrimaryResponse(race_cache.data.val, clock)]
    /\ pc' = [pc EXCEPT ![r] = "done"]
    /\ UNCHANGED <<clock, upstream, race_cache, rnow, resp, rs>>

\* GET /api/next with an absent or stale cache: app.py:106-109/112 up to the
\* await of client.get (app.py:99), where the coroutine is suspended; the
\* upstream answers the GET with the document it serves at that moment
RequestFetch(r) ==
    /\ pc[r] = "idle"
    /\ NeedsFetch(race_cache, clock)
    /\ rnow' = [rnow EXCEPT ![r] = clock]
    /\ resp' = [resp EXCEPT ![r] = [kind |-> "none", body |-> upstream]]
    /\ pc' = [pc EXCEPT ![r] = "fetching"]
    /\ UNCHANGED <<clock, upstream, race_cache, result, rs>>

\* the coroutine resumes with the body: app.py:109-110 or 112-113, then 115
\* and the scan, app.py:129-163
FetchSuccess(r) ==
    /\ pc[r] = "fetching"
    /\ race_cache' = Store(resp[r].body, rnow[r])
    /\ result' = [result EXCEPT ![r] = PrimaryResponse(race_cache'.data.val, clock)]
    /\ pc' = [pc EXCEPT ![r] = "done"]
    /\ rnow' = [rnow EXCEPT ![r] = 0]
    /\ resp' = [resp EXCEPT ![r] = [kind |-> "success", body |-> NoResp.body]]
    /\ UNCHANGED <<clock, upstream, rs>>

\* FetchHTTPError, dropping the cached payload when the fetch fails
FetchHTTPError_Clears(r) ==
    /\ pc[r] = "fetching"
    /\ result' = [result EXCEPT ![r] = FallbackResponse(race_cache, clock)]
    /\ race_cache' = [race_cache EXCEPT !.data = NoData]
    /\ pc' = [pc EXCEPT ![r] = "done"]
    /\ rnow' = [rnow EXCEPT ![r] = 0]
    /\ \E kind \in HTTPErrors :
         resp' = [resp EXCEPT ![r] = [kind |-> kind, body |-> NoResp.body]]
    /\ UNCHANGED <<clock, upstream, rs>>

\* the coroutine resumes with an httpx.HTTPError (the timeout of client.get,
\* or raise_for_status on a non-2xx answer): app.py:165-199
FetchHTTPError(r) ==
    /\ pc[r] = "fetching"
    /\ result' = [result EXCEPT ![r] = FallbackResponse(race_cache, clock)]
    /\ pc' = [pc EXCEPT ![r] = "done"]
    /\ rnow' = [rnow EXCEPT ![r] = 0]
    /\ \E kind \in HTTPErrors :
         resp' = [resp EXCEPT ![r] = [kind |-> kind, body |-> NoResp.body]]
    /\ UNCHANGED <<clock, upstream, race_cache, rs>>

\* FetchMalformed, stamping the cached payload with the time of the failed
\* refresh
FetchMalformed_Restamps(r) ==
    /\ pc[r] = "fetching"
    /\ result' = [result EXCEPT ![r] = SeasonOver]
    /\ race_cache' = [race_cache EXCEPT
                        !.timestamp = IF race_cache.data.some THEN Some(rnow[r]) ELSE @]
    /\ pc' = [pc EXCEPT ![r] = "done"]
    /\ rnow' = [rnow EXCEPT ![r] = 0]
    /\ resp' = [resp EXCEPT ![r] = [kind |-> "malformed", body |-> NoResp.body]]
    /\ UNCHANGED <<clock, upstream, rs>>

\* the coroutine resumes with the JSONDecodeError of response.json(), which
\* is no httpx.HTTPError: app.py:200-203
FetchMalformed(r) ==
    /\ pc[r] = "fetching"
    /\ result' = [result EXCEPT ![r] = SeasonOver]
    /\ pc' = [pc EXCEPT ![r] = "done"]
    /\ rnow' = [rnow EXCEPT ![r] = 0]
    /\ resp' = [resp EXCEPT ![r] = [kind |-> "malformed", body |-> NoResp.body]]
    /\ UNCHANGED <<clock, upstream, race_cache, rs>>

\* the response is delivered; the next request takes the slot
Deliver(r) ==
    /\ pc[r] = "done"
    /\ pc' = [pc EXCEPT ![r] = "idle"]
    /\ result' = [result EXCEPT ![r] = NoResponse]
    /\ resp' = [resp EXCEPT ![r] = NoResp]
    /\ UNCHANGED <<clock, upstream, race_cache, rnow, rs>>

\* FetchReturns, resuming a coroutine only once no other request is fetching
FetchReturns_AfterOthers(r) ==
    /\ \A q \in Reqs \ {r} : pc[q] # "fetching"
    /\ (FetchSuccess(r) \/ FetchHTTPError(r) \/ FetchMalformed(r))

\* the await of app.py:109/112 ends and the event loop resumes the coroutine
\* of request r, whatever the other requests are doing
FetchReturns(r) == FetchSuccess(r) \/ FetchHTTPError(r) \/ FetchMalformed(r)

Next ==
    \/ Tick
    \/ UpstreamPublish
    \/ \E r \in Reqs : RequestFresh(r)
    \/ \E r \in Reqs : RequestFetch(r)
    \/ \E r \in Reqs : FetchReturns(r)
    \/ \E r \in Reqs : Deliver(r)

Spec == Init /\ [][Next]_vars

\* every upstream fetch ends (httpx answers, fails or times out) and the event
\* loop resumes the coroutine that awaits it
SpecLive == Spec /\ \A r \in Reqs : WF_vars(FetchReturns(r))

-----------------------------------------------------------------------------
(* The resolver alone: every payload, every now *)

InitResolve ==
    /\ clock = 0
    /\ upstream = Payload(1, FALSE, <<>>)
    /\ race_cache = [data |-> NoData, timestamp |-> NoTimestamp]
    /\ pc = [r \in Reqs |-> "idle"]
    /\ rnow = [r \in Reqs |-> 0]
    /\ resp = [r \in Reqs |-> NoResp]
    /\ result = [r \in Reqs |-> NoResponse]
    /\ \E p \in Payloads, n \in 0..MaxNow :
         rs = [phase |-> "input", payload |-> p, now |-> n, out |-> NoResponse]

\* app.py:129-163 and 200-203 on the payload get_race_data returned
Resolve ==
    /\ rs.phase = "input"
    /\ rs' = [rs EXCEPT !.phase = "done", !.out = PrimaryResponse(rs.payload, rs.now)]
    /\ UNCHANGED <<clock, upstream, race_cache, pc, rnow, resp, result>>

\* app.py:165-199 on the same payload, held by the cache when the fetch
\* raised an httpx.HTTPError
ResolveStale ==
    /\ rs.phase = "input"
    /\ rs' = [rs EXCEPT !.phase = "stale",
                        !.out = FallbackResponse([data |-> Some(rs.payload),
                                                  timestamp |-> Some(0)], rs.now)]
    /\ UNCHANGED <<clock, upstream, race_cache, pc, rnow, resp, result>>

NextResolve == Resolve \/ ResolveStale

SpecResolve == InitResolve /\ [][NextResolve]_vars

-----------------------------------------------------------------------------
(* Claims about the cache and the endpoint, under Spec *)

Failures == {"timeout", "non2xx", "malformed"}

\* request r's fetch ends in this step, in failure
FetchFails(r) == pc[r] = "fetching" /\ pc'[r] = "done" /\ resp'[r].kind \in Failures

\* C1: at most one upstream fetch is in flight at any time.
C1_AtMostOneFetchInFlight == Cardinality({r \in Reqs : pc[r] = "fetching"}) <= 1

\* C2: every response of GET /api/next is status ok or status season_over,
\* never an unhandled error.
C2_NeverUnhandledError ==
    \A r \in Reqs : pc[r] = "done" => result[r].status \in {"ok", "season_over"}

\* C3: a fetch that fails in any of the three ways while a payload is cached
\* is answered with the resolver's result on that unchanged payload at the
\* current time.
C3_StaleServe ==
    [][\A r \in Reqs :
         (FetchFails(r) /\ race_cache.data.some)
           => /\ result'[r] = PrimaryResponse(race_cache.data.val, clock)
              /\ race_cache' = race_cache]_vars

\* C4: a request that finds a payload cached with now - fetchedAt <= 1 hour
\* makes no upstream call and is answered from the cached payload; a request
\* that finds no payload, or now - fetchedAt > 1 hour, makes one upstream
\* call, and no request makes a second one.
C4_CacheFreshness ==
    [][\A r \in Reqs :
         /\ (pc[r] = "idle" /\ pc'[r] # "idle")
              => IF /\ race_cache.data.some /\ race_cache.timestamp.some
                    /\ clock - race_cache.timestamp.val <= CACHE_DURATION
                 THEN /\ pc'[r] = "done"
                      /\ resp'[r].kind = "none"
                      /\ race_cache' = race_cache
                      /\ result'[r] = PrimaryResponse(race_cache.data.val, clock)
                 ELSE /\ pc'[r] = "fetching"
                      /\ resp'[r].body = upstream
         /\ pc[r] = "fetching" => pc'[r] \in {"fetching", "done"}
         /\ pc[r] = "done" => pc'[r] \in {"done", "idle"}]_vars

\* C4 witness: one request was answered from the cache exactly one hour after
\* the fetch, and another, more than one hour after it, is fetching.
C4_Witness ==
    \E r1, r2 \in Reqs :
        /\ pc[r1] = "done" /\ resp[r1].kind = "none" /\ result[r1].status = "ok"
        /\ pc[r2] = "fetching"
        /\ race_cache.timestamp.some
        /\ rnow[r2] - race_cache.timestamp.val > CACHE_DURATION
        /\ clock = race_cache.timestamp.val + CACHE_DURATION + 1

\* C7: a fetch that fails while nothing is cached is answered season_over,
\* and the cache stays empty: payload and fetchedAt both absent.
C7_FailureWithoutCache ==
    [][\A r \in Reqs :
         (FetchFails(r) /\ ~race_cache.data.some)
           => /\ result'[r] = SeasonOver
              /\ race_cache' = [data |-> NoData, timestamp |-> NoTimestamp]]_vars

\* C7 witness: a request whose fetch timed out with nothing cached has its
\* season_over response.
C7_Witness ==
    \E r \in Reqs :
        /\ pc[r] = "done" /\ resp[r].kind = "timeout"
        /\ ~race_cache.data.some /\ ~race_cache.timestamp.some
        /\ result[r].status = "season_over"

\* C8: the cache's fetchedAt and the upstream version of its payload never
\* decrease.
C8_NoRetrograde ==
    [][race_cache.timestamp.some
         => /\ race_cache'.timestamp.val >= race_cache.timestamp.val
            /\ race_cache'.data.val.ver >= race_cache.data.val.ver]_vars

-----------------------------------------------------------------------------
(* Claims about the resolver, under SpecResolve *)

Resolved == rs.phase = "done"
Races == GetRaces(rs.payload)

\* the start of a race as the primary scan reads it
Start(race) == ParseStart(NormalizePrimary(race.gp))

Missing(race) == ~race.hasGp
Unparsable(race) == race.hasGp /\ ~Start(race).ok
StartsAfter(race, now) ==
    /\ race.hasGp /\ race.gp # <<>>
    /\ Start(race).ok /\ Start(race).dt.aware
    /\ Instant(Start(race).dt) > now
NotAfter(race, now) ==
    /\ race.hasGp /\ race.gp # <<>>
    /\ Start(race).ok /\ Start(race).dt.aware
    /\ Instant(Start(race).dt) <= now

\* C5: a returned race is the first in feed order whose "gp" parses and is
\* strictly after now; every race before it is past (or at now), missing
\* "gp", or unparsable; its startUtc is that parsed start.
C5_FirstFutureInFeedOrder ==
    (Resolved /\ rs.out.status = "ok")
      => /\ rs.out.idx \in 1..Len(Races)
         /\ StartsAfter(Races[rs.out.idx], rs.now)
         /\ rs.out.startUtc = Isoformat(Start(Races[rs.out.idx]).dt)
         /\ \A j \in 1..(rs.out.idx - 1) :
              /\ ~StartsAfter(Races[j], rs.now)
              /\ Missing(Races[j]) \/ Unparsable(Races[j]) \/ NotAfter(Races[j], rs.now)

\* C5 witness: the second race is returned although the third starts
\* earlier, the first one starting exactly at now.
C5_Witness ==
    /\ Resolved /\ rs.out.status = "ok" /\ rs.out.idx = 2
    /\ Len(Races) = 3
    /\ NotAfter(Races[1], rs.now) /\ Instant(Start(Races[1]).dt) = rs.now
    /\ StartsAfter(Races[3], rs.now)
    /\ Instant(Start(Races[3]).dt) < Instant(Start(Races[2]).dt)

\* C6: an unparsable "gp" is skipped: the first race that starts after now,
\* all races before it being past, missing "gp" or unparsable, is returned.
C6_UnparsableIsSkipped ==
    Resolved =>
      \A i \in 1..Len(Races) :
        ( /\ StartsAfter(Races[i], rs.now)
          /\ \A j \in 1..(i - 1) :
               Missing(Races[j]) \/ Unparsable(Races[j]) \/ NotAfter(Races[j], rs.now) )
          => (rs.out.status = "ok" /\ rs.out.idx = i)

\* C9: a payload in which no race starts strictly after now resolves to
\* season_over.
C9_NoFutureRaceIsSeasonOver ==
    (Resolved /\ \A i \in 1..Len(Races) : ~StartsAfter(Races[i], rs.now))
      => rs.out = SeasonOver

\* C9 witness: two races, one starting exactly at now and one without "gp".
C9_Witness ==
    /\ Resolved /\ rs.out.status = "season_over"
    /\ Len(Races) = 2
    /\ NotAfter(Races[1], rs.now) /\ Instant(Start(Races[1]).dt) = rs.now
    /\ Missing(Races[2])

\* a string that ends in +HH:MM or -HH:MM after a date and a time
CarriesOffset(s) ==
    Len(s) = 5 /\ IsSign(s[4]) /\ s[5].k = "hm" /\ FromIsoformat(s).ok

\* C10: a trailing Z becomes +00:00, a string without offset and without Z
\* gets +00:00 appended, a string carrying +HH:MM or -HH:MM is left
\* untouched; so a future race with a negative offset, behind races without
\* "gp" only, is returned.
C10_NormalizationByShape ==
    Resolved =>
      \A i \in 1..Len(Races) :
        LET s == Races[i].gp
        IN  /\ (Races[i].hasGp /\ EndsWithZ(s))
                 => NormalizePrimary(s) = SubSeq(s, 1, Len(s) - 1) \o PlusZero
            /\ (Races[i].hasGp /\ CarriesOffset(s)) => NormalizePrimary(s) = s
            /\ (Races[i].hasGp /\ ~CarriesOffset(s) /\ ~Contains(s, "Z"))
                 => NormalizePrimary(s) = s \o PlusZero
            /\ ( /\ Races[i].hasGp /\ CarriesOffset(s) /\ s[4] = Ch("-")
                 /\ Instant(FromIsoformat(s).dt) > rs.now
                 /\ \A j \in 1..(i - 1) : Missing(Races[j]) )
                 => (rs.out.status = "ok" /\ rs.out.idx = i)

-----------------------------------------------------------------------------
(* Further claims about the cache, under Spec *)

\* C11: in every reachable state the cache's payload and fetchedAt are both
\* absent or both present.
C11_PayloadAndFetchedAtTogether ==
    race_cache.data.some = race_cache.timestamp.some

\* C11 witness: both are present while one request has failed and another
\* is still fetching.
C11_Witness ==
    /\ race_cache.data.some /\ race_cache.timestamp.some
    /\ \E r, q \in Reqs :
         /\ pc[r] = "done" /\ resp[r].kind \in Failures
         /\ pc[q] = "fetching"

\* C12: a fetch that fails leaves the cache as it was: neither the payload
\* nor fetchedAt is cleared, replaced or re-stamped, from the start of the
\* fetch to the failure.
C12_FailedFetchLeavesCache ==
    [][\A r \in Reqs :
         /\ FetchFails(r) => race_cache' = race_cache
         /\ (pc[r] = "idle" /\ pc'[r] = "fetching") => race_cache' = race_cache]_vars

\* C12 witness: a fetch failed at a later time than the cached fetchedAt,
\* with a payload cached.
C12_Witness ==
    \E r \in Reqs :
        /\ pc[r] = "done" /\ resp[r].kind \in Failures
        /\ race_cache.data.some /\ race_cache.timestamp.some
        /\ clock > race_cache.timestamp.val + CACHE_DURATION

-----------------------------------------------------------------------------
(* Further claims about the resolver, under SpecResolve *)

\* a session time that lies after now
SessionAfter(s, now) ==
    /\ ParseStart(NormalizePrimary(s)).ok
    /\ ParseStart(NormalizePrimary(s)).dt.aware
    /\ Instant(ParseStart(NormalizePrimary(s)).dt) > now

\* C13: a race without "gp" is never returned, whatever its other sessions;
\* when only races without "gp" have a session after now, the result is
\* season_over.
C13_NoGpIsNeverNext ==
    Resolved =>
      /\ rs.out.status = "ok" => Races[rs.out.idx].hasGp
      /\ ( /\ \E i \in 1..Len(Races) :
                ~Races[i].hasGp /\ SessionAfter(Races[i].fp1, rs.now)
           /\ \A i \in 1..Len(Races) :
                Races[i].hasGp => ~SessionAfter(Races[i].gp, rs.now) )
           => rs.out = SeasonOver

\* C13 witness: the first race has no "gp" and another session after now,
\* the second one started before now: season_over.
C13_Witness ==
    /\ Resolved /\ rs.out.status = "season_over"
    /\ Len(Races) = 2
    /\ ~Races[1].hasGp /\ SessionAfter(Races[1].fp1, rs.now)
    /\ NotAfter(Races[2], rs.now) /\ Instant(Start(Races[2]).dt) < rs.now

C15_FallbackScanEquivalent ==
    rs.phase = "stale" => rs.out = PrimaryResponse(rs.payload, rs.now)

-----------------------------------------------------------------------------
(* Retry and freshness, under Spec *)

\* request r's fetch ends in this step, in success
FetchSucceeds(r) == pc[r] = "fetching" /\ pc'[r] = "done" /\ resp'[r].kind = "success"

\* request r starts in this step
Starts(r) == pc[r] = "idle" /\ pc'[r] # "idle"

\* a failed refresh does not advance fetchedAt, and a request that finds the
\* cache absent or stale fetches again
RetriesAfterFailure(r) ==
    /\ FetchFails(r) => race_cache'.timestamp = race_cache.timestamp
    /\ (Starts(r) /\ (~race_cache.data.some
                        \/ clock - race_cache.timestamp.val > CACHE_DURATION))
         => pc'[r] = "fetching"

\* a request that finds now - fetchedAt <= 1 hour does not fetch
NoFetchWithinTheHour(r) ==
    (Starts(r) /\ race_cache.data.some
               /\ clock - race_cache.timestamp.val <= CACHE_DURATION)
      => (pc'[r] = "done" /\ resp'[r].kind = "none")

-----------------------------------------------------------------------------
(* Termination, under SpecLive *)

\* C17: every request that started a fetch eventually has its response,
\* given that every fetch ends and its coroutine is resumed.
C17_EveryRequestResponds ==
    \A r \in Reqs :
        (pc[r] = "fetching") ~> (pc[r] = "done" /\ result[r].status # "pending")

\* the safety half of C17: a request whose fetch is in flight can be resumed
\* in every state, whatever the other requests are doing; a request with a
\* fresh cache is answered in the step in which it starts
C17_NeverWaits ==
    \A r \in Reqs :
        /\ pc[r] = "fetching" => ENABLED FetchReturns(r)
        /\ pc[r] = "idle" => ENABLED (RequestFresh(r) \/ RequestFetch(r))

\* C17 witness: a request that began after another one's fetch has its
\* response while that other fetch is still in flight.
C17_Witness ==
    \E r, q \in Reqs :
        /\ pc[r] = "done" /\ resp[r].kind = "success"
        /\ pc[q] = "fetching"
        /\ race_cache.timestamp.some /\ race_cache.timestamp.val > rnow[q]

====
